---- MODULE Spec2Model ----
(***************************************************************************)
(* Model of src/Practical_File/script.js: the DocumentGenerator class      *)
(* (lines 564-973), its hand-rolled placeholder substitution and the       *)
(* generateDocument pipeline around it.                                    *)
(*                                                                         *)
(* Texts are sequences of one-character strings, so that String.replace    *)
(* and String.includes are computed character by character.                *)
(*                                                                         *)
(* Two specifications:                                                     *)
(*   SpecSubst  the substitution code of processDocumentXML (875-899) and   *)
(*              processHeaderFooter (931-936) run on one text, one replace  *)
(*              call per step;                                             *)
(*   SpecGen    DocumentGenerator.generateDocument, one step per await,     *)
(*              on a generator whose this.elements is bound.               *)
(***************************************************************************)
EXTENDS Naturals, Integers, Sequences, FiniteSets, TLC

(***************************************************************************)
(* Bounds                                                                  *)
(***************************************************************************)
\* template texts of SpecSubst are concatenations of at most MaxPieces fragments
MaxPieces == 3

\* submit events followed
MaxAttempts == 1

\* input and click events followed
MaxInputs == 1

\* user events (submit, input, click) followed in all
MaxEvents == 2

\* submit events followed in the second initApplication, whose generateDocument
\* has one await only, so that calls of its handler can overlap
MaxCalls == 2

\* SpecFilename draws names of at most MaxNameLen characters
MaxNameLen == 2

(***************************************************************************)
(* Strings                                                                 *)
(***************************************************************************)
Keys == {"name", "rollNo", "section"}

\* the placeholder token of a key, {key}, as the claims name it and as the
\* template texts below contain it
Token(key) ==
    CASE key = "name"    -> <<"{", "n", "a", "m", "e", "}">>
      [] key = "rollNo"  -> <<"{", "r", "o", "l", "l", "N", "o", "}">>
      [] key = "section" -> <<"{", "s", "e", "c", "t", "i", "o", "n", "}">>

\* the order in which the code handles the keys (878, 886, 894 and 934-936)
KeyOrder == <<"name", "rollNo", "section">>

\* the string literal passed to String.includes (lines 878, 886, 894)
literalOf(key) ==
    CASE key = "name"    -> <<"{", "n", "a", "m", "e", "}">>
      [] key = "rollNo"  -> <<"{", "r", "o", "l", "l", "N", "o", "}">>
      [] key = "section" -> <<"{", "s", "e", "c", "t", "i", "o", "n", "}">>

\* faulty variant: the pattern without its braces (/name/g for /{name}/g)
patternOfBare(key) ==
    CASE key = "name"    -> <<"n", "a", "m", "e">>
      [] key = "rollNo"  -> <<"r", "o", "l", "l", "N", "o">>
      [] key = "section" -> <<"s", "e", "c", "t", "i", "o", "n">>

\* faulty variant: double-brace patterns (/{{name}}/g for /{name}/g)
patternOfDouble(key) ==
    CASE key = "name"    -> <<"{", "{", "n", "a", "m", "e", "}", "}">>
      [] key = "rollNo"  -> <<"{", "{", "r", "o", "l", "l", "N", "o", "}", "}">>
      [] key = "section" -> <<"{", "{", "s", "e", "c", "t", "i", "o", "n", "}", "}">>

\* the character sequence the regular expression literal matches: /{name}/g,
\* /{rollNo}/g, /{section}/g have no quantifier (a brace that opens no valid
\* quantifier is a literal character), so each matches its own source text
patternOf(key) ==
    CASE key = "name"    -> <<"{", "n", "a", "m", "e", "}">>
      [] key = "rollNo"  -> <<"{", "r", "o", "l", "l", "N", "o", "}">>
      [] key = "section" -> <<"{", "s", "e", "c", "t", "i", "o", "n", "}">>

\* does t occur in s at index i (1-based)
MatchAt(s, t, i) ==
    /\ i >= 1
    /\ i + Len(t) - 1 <= Len(s)
    /\ SubSeq(s, i, i + Len(t) - 1) = t

\* String.prototype.includes
includes(s, t) == \E i \in 1..(Len(s) + 1) : MatchAt(s, t, i)

\* index of the leftmost match of t in s at or after pos; 0 when there is none
IndexFrom(s, t, pos) ==
    LET hits == {i \in pos..(Len(s) + 1) : MatchAt(s, t, i)}
    IN  IF hits = {} THEN 0
        ELSE CHOOSE i \in hits : \A j \in hits : i <= j

\* the grave accent character (U+0060), which a TLA+ string cannot hold
Backquote == "grave"

\* GetSubstitution of String.prototype.replace for a pattern without capture
\* groups: in the replacement text $$ stands for $, $& for the matched text,
\* $ with a grave accent for the text before the match and $' for the text
\* after it; any other $ is an ordinary character
RECURSIVE GetSubstitution(_, _, _, _, _)
GetSubstitution(matched, str, position, replacement, k) ==
    IF k > Len(replacement) THEN <<>>
    ELSE IF replacement[k] = "$" /\ k < Len(replacement)
    THEN LET c == replacement[k + 1] IN
         CASE c = "$" -> <<"$">> \o GetSubstitution(matched, str, position, replacement, k + 2)
           [] c = "&" -> matched \o GetSubstitution(matched, str, position, replacement, k + 2)
           [] c = Backquote -> SubSeq(str, 1, position - 1)
                            \o GetSubstitution(matched, str, position, replacement, k + 2)
           [] c = "'" -> SubSeq(str, position + Len(matched), Len(str))
                            \o GetSubstitution(matched, str, position, replacement, k + 2)
           [] OTHER   -> <<"$">> \o GetSubstitution(matched, str, position, replacement, k + 1)
    ELSE <<replacement[k]>> \o GetSubstitution(matched, str, position, replacement, k + 1)

RECURSIVE ReplaceFrom(_, _, _, _)
ReplaceFrom(str, pat, replacement, pos) ==
    LET i == IndexFrom(str, pat, pos) IN
    IF i = 0 THEN SubSeq(str, pos, Len(str))
    ELSE SubSeq(str, pos, i - 1)
            \o GetSubstitution(pat, str, i, replacement, 1)
            \o ReplaceFrom(str, pat, replacement, i + Len(pat))

\* str.replace(/pat/g, replacement): every match, left to right, the replaced
\* text is not scanned again within the same call
replace(str, pat, replacement) == ReplaceFrom(str, pat, replacement, 1)

(***************************************************************************)
(* The substitution code                                                   *)
(***************************************************************************)
\* faulty variant: after a key that is not found, nothing more is replaced (the
\* warning branch returns instead of falling through to the next block)
replaceIfFoundChained(xmlContent, content, data, key) ==
    LET at == CHOOSE i \in 1..3 : KeyOrder[i] = key
    IN  IF \A j \in 1..at : includes(xmlContent, literalOf(KeyOrder[j]))
        THEN replace(content, patternOf(key), data[key])
        ELSE content

\* one of the three blocks of processDocumentXML (878-883, 886-891, 894-899):
\* the test reads xmlContent, the text as read from the package, and the
\* replace call works on modifiedContent
replaceIfFound(xmlContent, content, data, key) ==
    IF includes(xmlContent, literalOf(key))
    THEN replace(content, patternOf(key), data[key])
    ELSE content

\* one of the three replace calls of processHeaderFooter (934, 935, 936)
replaceInPart(content, data, key) == replace(content, patternOf(key), data[key])

\* lines 875-899 as a whole: the new text of word/document.xml
substituteBody(xmlContent, data) ==
    LET c1 == replaceIfFound(xmlContent, xmlContent, data, KeyOrder[1])
        c2 == replaceIfFound(xmlContent, c1, data, KeyOrder[2])
    IN  replaceIfFound(xmlContent, c2, data, KeyOrder[3])

\* lines 931-936 as a whole: the new text of one header or footer part
substituteHeaderFooter(content, data) ==
    replaceInPart(replaceInPart(replaceInPart(content, data, KeyOrder[1]),
                                data, KeyOrder[2]),
                  data, KeyOrder[3])

(***************************************************************************)
(* Inputs of SpecSubst                                                     *)
(***************************************************************************)
Fragments ==
    { <<"{", "n", "a", "m", "e", "}">>,
      <<"{", "r", "o", "l", "l", "N", "o", "}">>,
      <<"{", "s", "e", "c", "t", "i", "o", "n", "}">>,
      <<"n", "a", "m", "e">>,
      <<"{">>,
      <<"}">> }

RECURSIVE Concats(_)
Concats(n) ==
    IF n = 0 THEN {<<>>}
    ELSE LET shorter == Concats(n - 1)
         IN  shorter \cup {p \o f : p \in shorter, f \in Fragments}

\* "Hello {{name}}, roll {{rollNo}}, sec {{section}}."
E2EDouble ==
    <<"H", "e", "l", "l", "o", " ", "{", "{", "n", "a", "m", "e", "}", "}", ",", " ",
      "r", "o", "l", "l", " ", "{", "{", "r", "o", "l", "l", "N", "o", "}", "}", ",", " ",
      "s", "e", "c", " ", "{", "{", "s", "e", "c", "t", "i", "o", "n", "}", "}", ".">>

\* "Hello {name}, roll {rollNo}, sec {section}."
E2ESingle ==
    <<"H", "e", "l", "l", "o", " ", "{", "n", "a", "m", "e", "}", ",", " ",
      "r", "o", "l", "l", " ", "{", "r", "o", "l", "l", "N", "o", "}", ",", " ",
      "s", "e", "c", " ", "{", "s", "e", "c", "t", "i", "o", "n", "}", ".">>

\* "{roll{name}} {rollNo}"
SplitToken ==
    <<"{", "r", "o", "l", "l", "{", "n", "a", "m", "e", "}", "}", " ",
      "{", "r", "o", "l", "l", "N", "o", "}">>

Texts == Concats(MaxPieces) \cup {E2EDouble, E2ESingle, SplitToken}

\* replacement values: non-empty and trimmed, as generateDocument passes them
NameValues == { <<"A", "n", "n">>, <<"N", "o">>, <<"$", "&">>,
                <<"{", "r", "o", "l", "l", "N", "o", "}">> }
RollNoValues == { <<"7">>, <<"$", "$">> }
SectionValues == { <<"B">>, <<"<", "&", ">">>, <<"$", Backquote>> }

DataMaps ==
    { [name |-> n, rollNo |-> r, section |-> s] :
        n \in NameValues, r \in RollNoValues, s \in SectionValues }

E2EData == [name |-> <<"A", "n", "n">>, rollNo |-> <<"7">>, section |-> <<"B">>]

(***************************************************************************)
(* The form, the buttons, the log                                          *)
(***************************************************************************)
WhiteSpace == {" ", "\t"}

RECURSIVE trimStart(_)
trimStart(s) ==
    IF s # <<>> /\ Head(s) \in WhiteSpace THEN trimStart(Tail(s)) ELSE s

RECURSIVE trimEnd(_)
trimEnd(s) ==
    IF s # <<>> /\ s[Len(s)] \in WhiteSpace THEN trimEnd(SubSeq(s, 1, Len(s) - 1)) ELSE s

\* String.prototype.trim
trim(s) == trimEnd(trimStart(s))

\* the characters \w matches
WordChars ==
    { "a", "b", "c", "d", "e", "f", "g", "h", "i", "j", "k", "l", "m",
      "n", "o", "p", "q", "r", "s", "t", "u", "v", "w", "x", "y", "z",
      "A", "B", "C", "D", "E", "F", "G", "H", "I", "J", "K", "L", "M",
      "N", "O", "P", "Q", "R", "S", "T", "U", "V", "W", "X", "Y", "Z",
      "0", "1", "2", "3", "4", "5", "6", "7", "8", "9", "_" }

\* faulty variant: a run of disallowed characters becomes one underscore
\* (/[^\w\s.-]+/gi)
RECURSIVE sanitizeRuns(_)
sanitizeRuns(s) ==
    IF s = <<>> THEN <<>>
    ELSE IF Head(s) \in WordChars \cup WhiteSpace \cup {".", "-"}
         THEN <<Head(s)>> \o sanitizeRuns(Tail(s))
         ELSE IF Len(s) > 1 /\ s[2] \notin WordChars \cup WhiteSpace \cup {".", "-"}
              THEN sanitizeRuns(Tail(s))
              ELSE <<"_">> \o sanitizeRuns(Tail(s))

\* s.replace(/[^\w\s.-]/gi, '_') (836, 837)
sanitize(s) ==
    [i \in 1..Len(s) |->
        IF s[i] \in WordChars \cup WhiteSpace \cup {".", "-"} THEN s[i] ELSE "_"]

\* the file name handed to saveAs (838)
filenameOf(name, rollNo) ==
    sanitize(name) \o <<"_">> \o sanitize(rollNo) \o <<".", "d", "o", "c", "x">>

\* faulty variant: the fields are tested as typed, without trim()
allFilledUntrimmed(f) == f.name # <<>> /\ f.rollNo # <<>> /\ f.section # <<>>

\* allFilled of validateForm (696-700)
allFilled(f) == trim(f.name) # <<>> /\ trim(f.rollNo) # <<>> /\ trim(f.section) # <<>>

\* the button states validateForm leaves (702-708)
validateForm(b, f) ==
    [b EXCEPT !.generateBtn.disabled = ~allFilled(f),
              !.previewBtn.disabled = ~allFilled(f)]

Spinner == "Processing..."

\* setButtonsState on one button (958-969); original is the data-original-text
\* attribute, the empty string standing for an attribute that is not set
setButtonState(btn, enabled) ==
    IF ~enabled
    THEN [disabled |-> TRUE, innerHTML |-> Spinner, original |-> btn.innerHTML]
    ELSE [disabled |-> FALSE,
          innerHTML |-> IF btn.original # "" THEN btn.original ELSE btn.innerHTML,
          original |-> btn.original]

\* setButtonsState (949-972)
setButtonsState(b, enabled) ==
    [generateBtn |-> setButtonState(b.generateBtn, enabled),
     previewBtn  |-> setButtonState(b.previewBtn, enabled),
     testBtn     |-> setButtonState(b.testBtn, enabled)]

\* one entry of the status log (609-618): its class, its text, and what the
\* text interpolates (a key, a part path, an error message; a value)
Entry(type, text, arg, value) == [type |-> type, text |-> text, arg |-> arg, value |-> value]

(***************************************************************************)
(* The package                                                             *)
(***************************************************************************)
DocumentXml == "word/document.xml"

\* the parts a template may hold, in archive order (the order of zip.forEach)
PartPaths ==
    << "word/document.xml", "word/styles.xml", "word/header1.xml",
       "word/header2.xml", "word/footer1.xml" >>

\* faulty variant: the filter keeps every .xml part of the word folder
matchesTypeAnyXml(path, type) ==
    path \in {"word/document.xml", "word/styles.xml", "word/header1.xml",
              "word/header2.xml", "word/footer1.xml"}

\* relativePath.includes('word/' + type) && relativePath.endsWith('.xml') (921)
matchesType(path, type) ==
    CASE type = "header" -> path \in {"word/header1.xml", "word/header2.xml"}
      [] type = "footer" -> path \in {"word/footer1.xml"}

\* the files array processHeaderFooter collects (919-924)
filesOfType(z, type) ==
    SelectSeq(PartPaths, LAMBDA path : path \in DOMAIN z /\ matchesType(path, type))

NoZip == [path \in {} |-> <<>>]

NoDocumentXml == "Could not find document.xml in the .docx file"
FetchError == "Failed to fetch"
LoadError == "Can't find end of central directory : is this a zip file ?"
ReadError == "Corrupted zip : part cannot be read"
WriteError == "Can't write the part"
GenerateError == "Can't serialize the package"

\* faulty variant: a missing body part is passed over silently (return for throw)
findDocumentXmlSilent(z) ==
    [found |-> DocumentXml \in DOMAIN z, thrown |-> "none"]

\* zip.file('word/document.xml') and the test of its result (866-869)
findDocumentXml(z) ==
    [found  |-> DocumentXml \in DOMAIN z,
     thrown |-> IF DocumentXml \in DOMAIN z THEN "none" ELSE NoDocumentXml]

\* faulty variant: the part is written under its bare file name, which adds
\* a part to the package
writePartBareName(z, path, content) ==
    [p \in DOMAIN z \cup {"document.xml"} |->
        IF p = "document.xml" THEN content ELSE z[p]]

\* zip.file(path, content) on a path the package holds (902, 939)
writePart(z, path, content) == [z EXCEPT ![path] = content]

\* the log entry of one block of 877-899
keyEntry(content, d, key) ==
    IF includes(content, literalOf(key))
    THEN Entry("success", "Replaced", key, d[key])
    ELSE Entry("warning", "not found in template", key, <<>>)

\* faulty variant: a placeholder missing from the body is an error
processBodyStrict(content, d) ==
    [content |-> substituteBody(content, d),
     entries |-> << keyEntry(content, d, KeyOrder[1]),
                    keyEntry(content, d, KeyOrder[2]),
                    keyEntry(content, d, KeyOrder[3]) >>,
     thrown  |-> IF \E key \in Keys : ~includes(content, literalOf(key))
                 THEN "Placeholder not found in template" ELSE "none"]

\* lines 875-899 on the text read from word/document.xml: the new text, the
\* log entries, and what is thrown (nothing: a missing placeholder only logs)
processBody(content, d) ==
    [content |-> substituteBody(content, d),
     entries |-> << keyEntry(content, d, KeyOrder[1]),
                    keyEntry(content, d, KeyOrder[2]),
                    keyEntry(content, d, KeyOrder[3]) >>,
     thrown  |-> "none"]

\* faulty variant: the catch block of processHeaderFooter throws the error on
headerFooterCatchRethrow(type, message) ==
    [entries   |-> << Entry("warning", "Could not process files", type, <<>>) >>,
     rethrown  |-> message]

\* the catch block of processHeaderFooter (943-946): a warning, nothing thrown
headerFooterCatch(type, message) ==
    [entries   |-> << Entry("warning", "Could not process files", type, <<>>) >>,
     rethrown  |-> "none"]

\* processDocumentXML is done (908), generateDocument goes on to 829-830
bodyDoneEntries ==
    << Entry("success", "Placeholders replaced successfully", "", <<>>),
       Entry("info", "Generating output file...", "", <<>>) >>

\* where the call stands once processHeaderFooter(type) has returned (905-908)
afterType(z, type) ==
    IF type = "header" /\ filesOfType(z, "footer") # <<>>
    THEN [pc |-> "hf", hfType |-> "footer", hfFiles |-> filesOfType(z, "footer"),
          entries |-> << Entry("info", "Found file(s)", "footer", <<>>) >>]
    ELSE [pc |-> "generate", hfType |-> "none", hfFiles |-> <<>>,
          entries |-> bodyDoneEntries]

\* where the call stands once word/document.xml is written (902-905)
afterBody(z) ==
    IF filesOfType(z, "header") # <<>>
    THEN [pc |-> "hf", hfType |-> "header", hfFiles |-> filesOfType(z, "header"),
          entries |-> << Entry("info", "Found file(s)", "header", <<>>) >>]
    ELSE afterType(z, "header")

(***************************************************************************)
(* Inputs of SpecGen                                                       *)
(***************************************************************************)
\* the body of word/document.xml holding the tokens of the keys in present
BodyOf(present) ==
    <<"H", "i">>
        \o (IF "name" \in present THEN <<" ">> \o Token("name") ELSE <<>>)
        \o (IF "rollNo" \in present THEN <<" ">> \o Token("rollNo") ELSE <<>>)
        \o (IF "section" \in present THEN <<" ">> \o Token("section") ELSE <<>>)

PartText(path) ==
    CASE path = "word/styles.xml"  -> <<"s">>
      [] path = "word/header1.xml" -> <<"H", " ">> \o Token("name")
      [] path = "word/header2.xml" -> Token("section")
      [] path = "word/footer1.xml" -> <<"p", " ">> \o Token("rollNo") \o Token("rollNo")

\* the header and footer parts a template may hold; Word numbers the parts
\* of a kind from 1, so header2 comes with header1
OptionalParts ==
    { parts \in SUBSET {"word/header1.xml", "word/header2.xml", "word/footer1.xml"} :
        "word/header2.xml" \in parts => "word/header1.xml" \in parts }

\* the template.docx files the server may hold: with or without a body part,
\* the body with any subset of the three tokens, any headers and footers
Templates ==
    { [path \in {"word/styles.xml"} \cup parts |-> PartText(path)] :
        parts \in OptionalParts }
    \cup
    { [path \in {DocumentXml, "word/styles.xml"} \cup parts |->
          IF path = DocumentXml THEN BodyOf(present) ELSE PartText(path)] :
        present \in SUBSET Keys, parts \in OptionalParts }

NameInputs == { <<" ", "J", "o", "@", "h", "n", "!">> }
RollNoInputs == { <<"1", "2", "/", "3">> }
SectionInputs == { <<"B", " ">>, <<" ">> }

Forms ==
    { [name |-> n, rollNo |-> r, section |-> s] :
        n \in NameInputs, r \in RollNoInputs, s \in SectionInputs }

NoData == [name |-> <<>>, rollNo |-> <<>>, section |-> <<>>]

(***************************************************************************)
(* State                                                                   *)
(***************************************************************************)
VARIABLES
    xmlContent,       \* SpecSubst: the text read from the part (872, 930)
    data,             \* the data argument {name, rollNo, section} (826, 863)
    modifiedContent,  \* SpecSubst: modifiedContent of processDocumentXML (875)
    prevContent,      \* SpecSubst: modifiedContent before the latest block
    hfModified,       \* SpecSubst: modifiedContent of processHeaderFooter (931)
    hfPrev,           \* SpecSubst: hfModified before the latest replace call
    step,             \* SpecSubst: replace blocks done, 1-3 body, 4-6 header/footer
    form,             \* the values of the three input fields
    templateLoaded,   \* this.state.templateLoaded
    template,         \* the parts of the template.docx the server holds
    buttons,          \* generateBtn, previewBtn, testBtn: disabled, innerHTML, data-original-text
    statusLog,        \* the entries appended to the status log
    alerts,           \* the alert() calls made
    saved,            \* the saveAs() calls made: blob (the package) and file name
    timers,           \* pending setTimeout callbacks of line 846
    attempts,         \* submit events handled
    pc,               \* where generateDocument stands: idle, or the await it is at
    arrayBuffer,      \* templateArrayBuffer (818): what the fetch answered
    zip,              \* the JSZip object of the call (822)
    hfType,           \* the type argument of the running processHeaderFooter
    hfFiles,          \* the files of its loop not yet processed (929)
    error,            \* the message of the error caught at 850, "none" without one
    mark,             \* lengths of statusLog, alerts and saved when the call began
    variant,          \* which script of the file runs the page
    calls,            \* the submit handler calls of initApplication, one record each
    preview,          \* the preview section and its elements
    generator,        \* the DocumentGenerator object: this.elements, this.state, listeners
    inputs,           \* input and click events handled
    poll,             \* checkLibraries: its closure variables, the globals, the indicator
    tests             \* the testTemplate calls, one record each

substVars == <<xmlContent, modifiedContent, prevContent, hfModified, hfPrev, step>>

pageVars == <<form, templateLoaded, template, buttons, statusLog, alerts, saved, timers,
              attempts>>

callVars == <<pc, arrayBuffer, zip, hfType, hfFiles, error, mark>>

appVars == <<variant, calls, preview, generator>>

vars == <<data, substVars, pageVars, callVars, appVars, inputs, poll, tests>>

\* the three globals the scripts wait for (21-23)
Libraries == {"JSZip", "docxtemplater", "FileSaver"}

\* checkLibraries has not been called
NoPoll ==
    [pc |-> "none", checkCount |-> 0, libraries |-> {}, defined |-> Libraries,
     hidden |-> TRUE, initApplication |-> 0, showLibraryError |-> 0]

\* no generateDocument call is running or has run
CallIdle ==
    /\ pc = "idle"
    /\ arrayBuffer = "none"
    /\ zip = NoZip
    /\ hfType = "none"
    /\ hfFiles = <<>>
    /\ error = "none"
    /\ mark = [log |-> 0, alerts |-> 0, saved |-> 0]

\* the buttons as the page shows them before any handler has run
InitialButtons ==
    [generateBtn |-> [disabled |-> FALSE, innerHTML |-> "Generate Document", original |-> ""],
     previewBtn  |-> [disabled |-> FALSE, innerHTML |-> "Preview", original |-> ""],
     testBtn     |-> [disabled |-> FALSE, innerHTML |-> "Test Template", original |-> ""]]

\* the preview section before any click: hidden, its elements without text
HiddenPreview ==
    [hidden |-> TRUE, previewName |-> <<>>, previewRollNo |-> <<>>, previewSection |-> <<>>]

\* the elements the preview code holds, by the id each was looked up with
\* (89-92, 587-590, 1111-1114)
PreviewElements ==
    [previewSection      |-> "previewSection",
     previewName         |-> "previewName",
     previewRollNo       |-> "previewRollNo",
     previewSectionValue |-> "previewSection"]

\* the preview click handler (95-112, 719-727): the preview, and whether it
\* alerts; the fields of the preview are the textContent of the elements
previewClick(f, pv) ==
    IF ~allFilled(f)
    THEN [preview |-> pv, alert |-> TRUE]
    ELSE [preview |-> [pv EXCEPT ![PreviewElements.previewName] = trim(f.name),
                                 ![PreviewElements.previewRollNo] = trim(f.rollNo),
                                 ![PreviewElements.previewSectionValue] = trim(f.section),
                                 !.hidden = FALSE],
          alert |-> FALSE]

\* the alert of lines 101, 715
PreviewAlert ==
    [kind |-> "validation", detail |-> "Please fill in all fields to preview",
     filename |-> <<>>]

\* no DocumentGenerator has been constructed
NoGenerator ==
    [elements |-> "unbound", initialized |-> FALSE, listeners |-> {}, init |-> "none"]

\* the listeners initEventListeners attaches (645-690)
Listeners == {"previewBtn", "testBtn", "form", "clearLogBtn", "exportLogBtn", "inputs"}

\* a DocumentGenerator whose init has run to its end (579-606)
BoundGenerator ==
    [elements |-> "bound", initialized |-> TRUE, listeners |-> Listeners, init |-> "done"]

(***************************************************************************)
(* SpecSubst: the two substitution sequences on one text                   *)
(***************************************************************************)
InitSubst ==
    /\ xmlContent \in Texts
    /\ data \in DataMaps
    /\ modifiedContent = xmlContent
    /\ prevContent = xmlContent
    /\ hfModified = xmlContent
    /\ hfPrev = xmlContent
    /\ step = 0
    /\ form = NoData
    /\ templateLoaded = FALSE
    /\ template = NoZip
    /\ buttons = InitialButtons
    /\ statusLog = <<>>
    /\ alerts = <<>>
    /\ saved = <<>>
    /\ timers = 0
    /\ attempts = 0
    /\ CallIdle
    /\ variant = "none"
    /\ calls = <<>>
    /\ preview = HiddenPreview
    /\ generator = NoGenerator
    /\ inputs = 0
    /\ poll = NoPoll
    /\ tests = <<>>

\* the next block of lines 877-899
BodyReplace ==
    /\ step < 3
    /\ prevContent' = modifiedContent
    /\ modifiedContent' = replaceIfFound(xmlContent, modifiedContent, data, KeyOrder[step + 1])
    /\ step' = step + 1
    /\ UNCHANGED <<xmlContent, data, hfModified, hfPrev, pageVars, callVars, appVars, inputs>>
    /\ UNCHANGED <<poll, tests>>

\* the next call of lines 934-936, on a header or footer part holding the
\* same text; processHeaderFooter runs after the body is done (905)
HeaderFooterReplace ==
    /\ step >= 3
    /\ step < 6
    /\ hfPrev' = hfModified
    /\ hfModified' = replaceInPart(hfModified, data, KeyOrder[step - 2])
    /\ step' = step + 1
    /\ UNCHANGED <<xmlContent, data, modifiedContent, prevContent, pageVars, callVars,
                   appVars, inputs>>
    /\ UNCHANGED <<poll, tests>>

NextSubst == BodyReplace \/ HeaderFooterReplace

SpecSubst == InitSubst /\ [][NextSubst]_vars

(***************************************************************************)
(* SpecGen: DocumentGenerator.generateDocument                             *)
(***************************************************************************)
\* the page once init has bound this.elements (579-594), attached the
\* listeners and run validateForm (692) and testTemplate (603): the fields
\* hold what the user typed, templateLoaded is the outcome of testTemplate
InitGen ==
    /\ form \in Forms
    /\ templateLoaded \in BOOLEAN
    /\ template \in Templates
    /\ buttons = validateForm(InitialButtons, form)
    /\ statusLog = <<>>
    /\ alerts = <<>>
    /\ saved = <<>>
    /\ timers = 0
    /\ attempts = 0
    /\ CallIdle
    /\ data = NoData
    /\ xmlContent = <<>>
    /\ modifiedContent = <<>>
    /\ prevContent = <<>>
    /\ hfModified = <<>>
    /\ hfPrev = <<>>
    /\ step = 0
    /\ variant = "generator"
    /\ calls = <<>>
    /\ preview = HiddenPreview
    /\ generator = BoundGenerator
    /\ inputs = 0
    /\ poll = NoPoll
    /\ tests = <<>>

\* the catch and finally blocks of generateDocument (850-860), after the
\* entries the failing code logged before it threw
Fatal(entries, message) ==
    /\ statusLog' = statusLog \o entries
                       \o << Entry("error", "Document generation failed", message, <<>>),
                             Entry("info", "=== Generation complete ===", "", <<>>) >>
    /\ alerts' = Append(alerts, [kind |-> "failure", detail |-> message, filename |-> <<>>])
    /\ buttons' = setButtonsState(buttons, TRUE)
    /\ error' = message
    /\ pc' = "idle"

\* the catch block of processDocumentXML (910-913)
xmlCatchEntry(message) == Entry("error", "Error processing document XML", message, <<>>)

\* the confirm dialog of line 798 and the answer it returned
Confirm(shouldContinue) ==
    [kind     |-> "confirm",
     detail   |-> IF shouldContinue THEN "accepted" ELSE "declined",
     filename |-> <<>>]

\* the submit event: generateDocument up to its first await (791-816)
Submit ==
    /\ "form" \in generator.listeners
    /\ pc = "idle"
    /\ attempts < MaxAttempts
    /\ attempts + inputs < MaxEvents
    /\ attempts' = attempts + 1
    /\ \E shouldContinue \in BOOLEAN :
        IF ~allFilled(form)
        THEN /\ buttons' = validateForm(buttons, form)
             /\ alerts' = Append(alerts, [kind |-> "validation",
                                          detail |-> "Please fill in all fields",
                                          filename |-> <<>>])
             /\ UNCHANGED <<data, statusLog, callVars>>
        ELSE IF ~templateLoaded /\ ~shouldContinue
        THEN /\ buttons' = validateForm(buttons, form)
             /\ alerts' = Append(alerts, Confirm(shouldContinue))
             /\ UNCHANGED <<data, statusLog, callVars>>
        ELSE /\ data' = [name |-> trim(form.name), rollNo |-> trim(form.rollNo),
                         section |-> trim(form.section)]
             /\ statusLog' = statusLog \o
                    << Entry("info", "Starting document generation...", "", <<>>),
                       Entry("info", "Data", "", <<>>),
                       Entry("info", "Loading template...", "", <<>>) >>
             /\ buttons' = setButtonsState(validateForm(buttons, form), FALSE)
             /\ mark' = [log |-> Len(statusLog), alerts |-> Len(alerts), saved |-> Len(saved)]
             /\ error' = "none"
             /\ zip' = NoZip
             /\ arrayBuffer' = "none"
             /\ pc' = "fetch"
             /\ alerts' = IF templateLoaded THEN alerts
                          ELSE Append(alerts, Confirm(shouldContinue))
             /\ UNCHANGED <<hfType, hfFiles>>
    /\ UNCHANGED <<substVars, form, templateLoaded, template, saved, timers, appVars, inputs>>
    /\ UNCHANGED <<poll, tests>>

\* fetch, blob and arrayBuffer settle (816-818): the request fails, or it is
\* answered, by the template or by an error page (the status is not looked at)
FetchSettles ==
    /\ pc = "fetch"
    /\ \E outcome \in {"template", "errorPage", "rejected"} :
        IF outcome = "rejected"
        THEN /\ Fatal(<<>>, FetchError)
             /\ UNCHANGED <<arrayBuffer>>
        ELSE /\ arrayBuffer' = outcome
             /\ statusLog' = Append(statusLog, Entry("info", "Processing .docx file...", "", <<>>))
             /\ pc' = "load"
             /\ UNCHANGED <<alerts, buttons, error>>
    /\ UNCHANGED <<data, substVars, form, templateLoaded, template, saved, timers, attempts,
                   zip, hfType, hfFiles, mark, appVars, inputs>>
    /\ UNCHANGED <<poll, tests>>

\* JSZip.loadAsync settles (822); on success processDocumentXML runs up to
\* its await of the body text (863-872)
LoadSettles ==
    /\ pc = "load"
    /\ IF arrayBuffer # "template"
       THEN /\ Fatal(<<>>, LoadError)
            /\ UNCHANGED <<zip>>
       ELSE /\ zip' = template
            /\ LET entries == << Entry("info", "Replacing placeholders...", "", <<>>) >>
                   xmlFile == findDocumentXml(template)
               IN  IF xmlFile.thrown # "none"
                   THEN Fatal(entries \o <<xmlCatchEntry(xmlFile.thrown)>>, xmlFile.thrown)
                   ELSE /\ statusLog' = statusLog \o entries
                                           \o (IF xmlFile.found THEN <<>> ELSE bodyDoneEntries)
                        /\ pc' = IF xmlFile.found THEN "readBody" ELSE "generate"
                        /\ UNCHANGED <<alerts, buttons, error>>
    /\ UNCHANGED <<data, substVars, form, templateLoaded, template, saved, timers, attempts,
                   arrayBuffer, hfType, hfFiles, mark, appVars, inputs>>
    /\ UNCHANGED <<poll, tests>>

\* xmlFile.async('text') settles (872); on success the body is substituted and
\* written (875-902) and processHeaderFooter('header') runs up to its first
\* await, or, without header and footer parts, processDocumentXML returns
ReadBodySettles ==
    /\ pc = "readBody"
    /\ \E readable \in BOOLEAN :
        IF ~readable
        THEN /\ Fatal(<<xmlCatchEntry(ReadError)>>, ReadError)
             /\ UNCHANGED <<zip, hfType, hfFiles>>
        ELSE LET body == processBody(zip[DocumentXml], data)
                 z    == writePart(zip, DocumentXml, body.content)
                 next == afterBody(z)
             IN  IF body.thrown # "none"
                 THEN /\ Fatal(body.entries \o <<xmlCatchEntry(body.thrown)>>, body.thrown)
                      /\ UNCHANGED <<zip, hfType, hfFiles>>
                 ELSE /\ zip' = z
                      /\ statusLog' = statusLog \o body.entries \o next.entries
                      /\ pc' = next.pc
                      /\ hfType' = next.hfType
                      /\ hfFiles' = next.hfFiles
                      /\ UNCHANGED <<alerts, buttons, error>>
    /\ UNCHANGED <<data, substVars, form, templateLoaded, template, saved, timers, attempts,
                   arrayBuffer, mark, appVars, inputs>>
    /\ UNCHANGED <<poll, tests>>

\* file.async('text') of the next header or footer part settles (930): the
\* part is substituted and written (931-940), or reading or writing it fails
\* and the catch block ends the loop (943-946)
HeaderFooterSettles ==
    /\ pc = "hf"
    /\ \E outcome \in {"done", "readFails", "writeFails"} :
        LET path == Head(hfFiles) IN
        IF outcome = "done"
        THEN LET z    == writePart(zip, path, substituteHeaderFooter(zip[path], data))
                 next == IF Tail(hfFiles) # <<>>
                         THEN [pc |-> "hf", hfType |-> hfType, hfFiles |-> Tail(hfFiles),
                               entries |-> <<>>]
                         ELSE afterType(z, hfType)
             IN  /\ zip' = z
                 /\ statusLog' = statusLog \o << Entry("success", "Updated", path, <<>>) >>
                                           \o next.entries
                 /\ pc' = next.pc
                 /\ hfType' = next.hfType
                 /\ hfFiles' = next.hfFiles
                 /\ UNCHANGED <<alerts, buttons, error>>
        ELSE LET caught == headerFooterCatch(hfType,
                               IF outcome = "readFails" THEN ReadError ELSE WriteError)
                 next   == afterType(zip, hfType)
             IN  IF caught.rethrown # "none"
                 THEN /\ Fatal(caught.entries \o <<xmlCatchEntry(caught.rethrown)>>,
                               caught.rethrown)
                      /\ UNCHANGED <<zip, hfType, hfFiles>>
                 ELSE /\ statusLog' = statusLog \o caught.entries \o next.entries
                      /\ pc' = next.pc
                      /\ hfType' = next.hfType
                      /\ hfFiles' = next.hfFiles
                      /\ UNCHANGED <<zip, alerts, buttons, error>>
    /\ UNCHANGED <<data, substVars, form, templateLoaded, template, saved, timers, attempts,
                   arrayBuffer, mark, appVars, inputs>>
    /\ UNCHANGED <<poll, tests>>

\* zip.generateAsync settles (830): the blob is saved, the success alert is
\* scheduled and the finally block runs (836-848, 856-860), or the catch and
\* finally blocks run
GenerateSettles ==
    /\ pc = "generate"
    /\ \E serialized \in BOOLEAN :
        IF ~serialized
        THEN /\ Fatal(<<>>, GenerateError)
             /\ UNCHANGED <<saved, timers>>
        ELSE /\ saved' = Append(saved, [blob |-> zip,
                                        filename |-> filenameOf(data.name, data.rollNo)])
             /\ statusLog' = statusLog \o
                    << Entry("success", "Document generated successfully", "", 
                             filenameOf(data.name, data.rollNo)),
                       Entry("info", "File size", "", <<>>),
                       Entry("info", "=== Generation complete ===", "", <<>>) >>
             /\ timers' = timers + 1
             /\ buttons' = setButtonsState(buttons, TRUE)
             /\ pc' = "idle"
             /\ UNCHANGED <<alerts, error>>
    /\ UNCHANGED <<data, substVars, form, templateLoaded, template, attempts,
                   arrayBuffer, zip, hfType, hfFiles, mark, appVars, inputs>>
    /\ UNCHANGED <<poll, tests>>

\* the callback of setTimeout (846-848)
SuccessAlert ==
    /\ timers > 0
    /\ timers' = timers - 1
    /\ alerts' = Append(alerts, [kind |-> "success",
                                 detail |-> "Document generated successfully!",
                                 filename |-> <<>>])
    /\ UNCHANGED <<data, substVars, form, templateLoaded, template, buttons, statusLog,
                   saved, attempts, callVars, appVars, inputs>>
    /\ UNCHANGED <<poll, tests>>

\* an input event on one of the three fields (688): the field has its new
\* value and validateForm runs
Input ==
    /\ "inputs" \in generator.listeners
    /\ inputs < MaxInputs
    /\ attempts + inputs < MaxEvents
    /\ inputs' = inputs + 1
    /\ \E f \in Forms :
        /\ form' = f
        /\ buttons' = validateForm(buttons, f)
    /\ UNCHANGED <<data, substVars, templateLoaded, template, statusLog, alerts, saved, timers,
                   attempts, callVars, appVars>>
    /\ UNCHANGED <<poll, tests>>

\* what fetch('template.docx') and response.blob() may give testTemplate
\* (735-747): no answer, a status that is not ok, an empty body, or bytes
TestFetchOutcomes == {"rejected", "notOk", "empty", "bytes"}

\* what mammoth.extractRawText may do with the bytes (755)
ExtractOutcomes == {"throws", "noText", "text"}

ExtractError == "Could not find main document part"

\* mammoth.extractRawText on the template (755): result.value, or what it
\* throws; a package without a body part cannot be read
extractRawText(z, outcome) ==
    IF outcome = "throws" \/ DocumentXml \notin DOMAIN z
    THEN [value |-> <<>>, thrown |-> ExtractError]
    ELSE [value |-> IF outcome = "noText" THEN <<>> ELSE z[DocumentXml], thrown |-> "none"]

\* one line of the placeholder check (769-774)
placeholderEntry(text, key) ==
    IF includes(text, literalOf(key))
    THEN Entry("success", "Placeholder found", key, <<>>)
    ELSE Entry("error", "Placeholder not found", key, <<>>)

\* the catch block of testTemplate (784-788)
testCatch(message) ==
    [loaded  |-> FALSE,
     entries |-> << Entry("error", "Template test failed", message, <<>>) >>]

\* faulty variant: the template counts as loaded only with its placeholders
testExtractedNeedsPlaceholders(result) ==
    IF result.thrown # "none" THEN testCatch(result.thrown)
    ELSE IF result.value # <<>>
    THEN [loaded  |-> \A key \in Keys : includes(result.value, literalOf(key)),
          entries |-> << Entry("success", "Template is a valid .docx file", "", <<>>),
                         Entry("info", "Placeholder check:", "", <<>>),
                         placeholderEntry(result.value, KeyOrder[1]),
                         placeholderEntry(result.value, KeyOrder[2]),
                         placeholderEntry(result.value, KeyOrder[3]) >>]
    ELSE [loaded  |-> FALSE,
          entries |-> << Entry("warning", "Could not read template content", "", <<>>) >>]

\* testTemplate once extractRawText has settled (755-788): what it assigns to
\* state.templateLoaded and what it logs
testExtracted(result) ==
    IF result.thrown # "none" THEN testCatch(result.thrown)
    ELSE IF result.value # <<>>
    THEN [loaded  |-> TRUE,
          entries |-> << Entry("success", "Template is a valid .docx file", "", <<>>),
                         Entry("info", "Placeholder check:", "", <<>>),
                         placeholderEntry(result.value, KeyOrder[1]),
                         placeholderEntry(result.value, KeyOrder[2]),
                         placeholderEntry(result.value, KeyOrder[3]) >>]
    ELSE [loaded  |-> FALSE,
          entries |-> << Entry("warning", "Could not read template content", "", <<>>) >>]

\* testTemplate once fetch and response.blob() have settled (735-751): whether
\* it goes on, and otherwise what it assigns and logs
testFetched(outcome) ==
    CASE outcome = "rejected" -> [goesOn |-> FALSE] @@ testCatch(FetchError)
      [] outcome = "notOk" ->
            [goesOn |-> FALSE, loaded |-> FALSE,
             entries |-> << Entry("error", "Template not found (HTTP)", "", <<>>) >>]
      [] outcome = "empty" ->
            [goesOn |-> FALSE, loaded |-> FALSE,
             entries |-> << Entry("success", "Template found", "", <<>>),
                            Entry("warning", "Template is empty", "", <<>>) >>]
      [] outcome = "bytes" ->
            [goesOn |-> TRUE, loaded |-> FALSE,
             entries |-> << Entry("success", "Template found", "", <<>>) >>]

\* a testTemplate call that has made its request (731-735)
NewTest == [pc |-> "fetch", fetched |-> "none", extracted |-> "none", value |-> <<>>]

\* testTemplate is called, by a click on the test button (651) or through
\* window.debugTools.testTemplate (982-987): the call up to its first await
TestTemplate ==
    /\ generator.elements = "bound"
    /\ inputs < MaxInputs
    /\ attempts + inputs < MaxEvents
    /\ inputs' = inputs + 1
    /\ statusLog' = Append(statusLog, Entry("info", "Testing template availability...", "", <<>>))
    /\ tests' = Append(tests, NewTest)
    /\ UNCHANGED <<data, substVars, form, templateLoaded, template, buttons, alerts, saved,
                   timers, attempts, callVars, appVars, poll>>

\* fetch and response.blob() of a testTemplate call settle (735-751)
TestFetchSettles ==
    /\ \E i \in DOMAIN tests :
        /\ tests[i].pc = "fetch"
        /\ \E outcome \in TestFetchOutcomes :
            LET fetched == testFetched(outcome)
            IN  /\ tests' = [tests EXCEPT ![i].fetched = outcome,
                                         ![i].pc = IF fetched.goesOn THEN "extract" ELSE "done"]
                /\ statusLog' = statusLog \o fetched.entries
                /\ templateLoaded' = IF fetched.goesOn THEN templateLoaded ELSE fetched.loaded
    /\ UNCHANGED <<data, substVars, form, template, buttons, alerts, saved, timers, attempts,
                   callVars, appVars, inputs, poll>>

\* blob.arrayBuffer() and mammoth.extractRawText of a testTemplate call
\* settle (754-788)
TestExtractSettles ==
    /\ \E i \in DOMAIN tests :
        /\ tests[i].pc = "extract"
        /\ \E outcome \in ExtractOutcomes :
            LET result == extractRawText(template, outcome)
                tested == testExtracted(result)
            IN  /\ tests' = [tests EXCEPT ![i].extracted = IF result.thrown # "none"
                                                           THEN "throws" ELSE outcome,
                                         ![i].value = result.value,
                                         ![i].pc = "done"]
                /\ statusLog' = statusLog \o tested.entries
                /\ templateLoaded' = tested.loaded
    /\ UNCHANGED <<data, substVars, form, template, buttons, alerts, saved, timers, attempts,
                   callVars, appVars, inputs, poll>>

\* a click on the preview button (646): showPreview (713-729); a disabled
\* button dispatches no click
ShowPreview ==
    /\ "previewBtn" \in generator.listeners
    /\ ~buttons.previewBtn.disabled
    /\ inputs < MaxInputs
    /\ attempts + inputs < MaxEvents
    /\ inputs' = inputs + 1
    /\ buttons' = validateForm(buttons, form)
    /\ preview' = previewClick(form, preview).preview
    /\ IF previewClick(form, preview).alert
       THEN /\ alerts' = Append(alerts, PreviewAlert)
            /\ UNCHANGED statusLog
       ELSE /\ statusLog' = Append(statusLog, Entry("info", "Preview updated", "", <<>>))
            /\ UNCHANGED alerts
    /\ UNCHANGED <<data, substVars, form, templateLoaded, template, saved, timers, attempts,
                   callVars, variant, calls, generator, poll, tests>>

NextGen ==
    \/ Submit
    \/ Input
    \/ ShowPreview
    \/ FetchSettles
    \/ LoadSettles
    \/ ReadBodySettles
    \/ HeaderFooterSettles
    \/ GenerateSettles
    \/ SuccessAlert

SpecGen == InitGen /\ [][NextGen]_vars

\* SpecGate: the entry of generateDocument (791-800) together with
\* testTemplate (731-789), which assigns the state.templateLoaded that the
\* entry reads; a generation that was started stays at its first await
NextGate ==
    \/ Submit
    \/ Input
    \/ TestTemplate
    \/ TestFetchSettles
    \/ TestExtractSettles

SpecGate == InitGen /\ [][NextGate]_vars

(***************************************************************************)
(* initApplication (79-557, and its second copy 1101-1424): error messages *)
(* are sequences of words, so that the message.includes tests of the catch *)
(* blocks are computed on them                                             *)
(***************************************************************************)
AppVariants == {"first", "second"}

\* what fetch('template.docx') may answer: the template, an empty body, an
\* error page with a non-success status, or no answer at all
FetchOutcomes == {"ok", "empty", "status404", "status500", "rejected"}

FailedToFetch == <<"Failed", "to", "fetch">>

\* new Error(HTTP <status>: <statusText>) (123)
HttpError(outcome) ==
    CASE outcome = "status404" -> <<"HTTP", "404", ":", "Not", "Found">>
      [] outcome = "status500" -> <<"HTTP", "500", ":", "Internal", "Server", "Error">>

\* the message of lines 137-145
TemplateNotFound ==
    <<"Template", "file", "(template.docx)", "not", "found", ".", "Please", "ensure", ":",
      "The", "file", "is", "named", "exactly", "template.docx", ";",
      "It", "is", "in", "the", "same", "folder", "as", "index.html">>

\* the message of line 161
EmptyTemplate == <<"Template", "content", "is", "empty", "or", "invalid">>

\* what JSZip reports for bytes that are no zip archive
NotAZip ==
    <<"Can't", "find", "end", "of", "central", "directory", ":", "is", "this", "a", "zip",
      "file", "?">>

\* what new JSZip(data) throws since JSZip 3.0 (1189)
ConstructorRemoved ==
    <<"The", "constructor", "with", "parameters", "has", "been", "removed", "in", "JSZip",
      "3.0">>

SerializeFailed == <<"Can't", "serialize", "the", "package">>

\* loadTemplateFile once fetch has settled (120-148): the array buffer it
\* returns, or the message of the error it throws
loadTemplateFile(outcome) ==
    LET caught == IF outcome = "rejected" THEN FailedToFetch ELSE HttpError(outcome)
    IN  IF outcome \in {"ok", "empty"}
        THEN [content |-> IF outcome = "ok" THEN "template" ELSE "empty", thrown |-> <<>>]
        ELSE [content |-> "none",
              thrown  |-> IF includes(caught, FailedToFetch) \/ includes(caught, <<"404">>)
                          THEN TemplateNotFound
                          ELSE caught]

\* the message of the error the catch block of doc.render() throws (190-213)
templateError(renderError) ==
    LET atKey   == IF renderError.properties
                   THEN renderError.message \o <<"Error", "at", ":", "unknown">>
                   ELSE renderError.message
        details == IF renderError.properties /\ includes(atKey, <<"not", "found">>)
                   THEN atKey \o <<"Make", "sure", "your", "template.docx", "contains",
                                   "these", "exact", "placeholders", ":",
                                   "{{name}}", "{{rollNo}}", "{{section}}">>
                   ELSE atKey
    IN  <<"Template", "error", ":">> \o details

\* the heading the catch block of the submit handler picks (336-355, 1298-1308)
headingOf(v, message) ==
    IF includes(message, <<"Template", "file">>) \/ includes(message, <<"not", "found">>)
    THEN "File Error"
    ELSE IF includes(message, <<"Template", "error">>)
    THEN "Template Error"
    ELSE IF includes(message, <<"network">>) \/ includes(message, <<"fetch">>)
    THEN "Network Error"
    ELSE IF v = "first" /\ (includes(message, <<"JSZip">>) \/ includes(message, <<"constructor">>))
    THEN "Library Error"
    ELSE "Error"

\* the text of the alert of line 357 (1310)
errorMessageOf(v, message) ==
    LET heading == headingOf(v, message)
    IN  <<"Failed", "to", "generate", "document", ".">>
        \o CASE heading = "File Error" -> <<"File", "Error", ":">> \o message
             [] heading = "Template Error" ->
                    <<"Template", "Error", ":">> \o message
                    \o (IF v = "first" /\ includes(message, <<"XML">>)
                        THEN <<"This", "might", "mean", "your", "template.docx", "is",
                               "corrupted">>
                        ELSE <<>>)
             [] heading = "Network Error" ->
                    <<"Network", "Error", ":", "Please", "check", "your", "internet",
                      "connection", "and", "try", "again", ".">>
             [] heading = "Library Error" ->
                    <<"Library", "Error", ":", "JSZip", "library", "issue", ".", "Please",
                      "refresh", "the", "page", ".">>
             [] OTHER -> <<"Error", ":">> \o message

\* what zip.loadAsync and doc.render() may do with the bytes of the template
LoadOutcomes == {"notAZip", "multiError", "tagNotFound", "rendered"}

\* what the synchronous code of the second generateDocument may do (1189-1233)
SecondOutcomes == {"constructorRemoved", "notAZip", "multiError", "tagNotFound",
                   "generateFails", "generated"}

\* the errors doc.render() may throw: a message, and whether the error has
\* the properties object of docxtemplater's errors
RenderError(outcome) ==
    CASE outcome = "multiError"  -> [message |-> <<"Multi", "error">>, properties |-> TRUE]
      [] outcome = "tagNotFound" -> [message |-> <<"Tag", "not", "found">>, properties |-> FALSE]

Generating == "Generating..."

\* the blob docxtemplater's zip serializes to
DocBlob == [path \in {DocumentXml} |-> <<"r", "e", "n", "d", "e", "r", "e", "d">>]

\* the submit handler call that has passed the validation (280-301): its
\* closure variables, where it stands, and what it has done so far
NewCall(f, b) ==
    [pc           |-> "fetch",
     method       |-> "main",
     data         |-> [name |-> trim(f.name), rollNo |-> trim(f.rollNo),
                       section |-> trim(f.section)],
     originalText |-> b.generateBtn.innerHTML,
     body         |-> "none",
     error        |-> <<>>,
     fetched      |-> <<>>,
     loaded       |-> <<>>,
     renders      |-> 0,
     renderErrors |-> <<>>,
     saves        |-> 0,
     alerted      |-> <<>>]

\* an error thrown inside generateDocument or generateDocumentAlternative: the
\* first handler tries the alternative method (310-313), otherwise the catch
\* block of the submit handler shows the alert (330-357, 1292-1310)
caught(v, c, message) ==
    IF v = "first" /\ c.method = "main"
    THEN [c EXCEPT !.method = "alternative", !.pc = "fetch", !.body = "none"]
    ELSE [c EXCEPT !.pc = "done", !.error = message,
                   !.alerted = Append(@, errorMessageOf(v, message))]

\* the blob is returned to the submit handler, which saves it (315-328)
returned(c) == [c EXCEPT !.pc = "done", !.saves = @ + 1]

\* the rest of the second generateDocument, which has no await (1186-1236)
renderSecond(c, rest) ==
    LET c1 == [c EXCEPT !.body = "template", !.loaded = Append(@, "template")]
        c2 == [c1 EXCEPT !.renders = @ + 1]
    IN  CASE rest = "constructorRemoved" -> caught("second", c, ConstructorRemoved)
          [] rest = "notAZip" -> caught("second", c1, NotAZip)
          [] rest \in {"multiError", "tagNotFound"} ->
                caught("second",
                       [c2 EXCEPT !.renderErrors = Append(@, RenderError(rest).message)],
                       templateError(RenderError(rest)))
          [] rest = "generateFails" -> caught("second", c2, SerializeFailed)
          [] rest = "generated" -> returned(c2)

\* generateDocument once the fetch of loadTemplateFile has settled (158-174,
\* 1180-1189)
afterLoadTemplate(v, c, outcome, rest) ==
    LET file == loadTemplateFile(outcome)
    IN  IF file.thrown # <<>> THEN caught(v, c, file.thrown)
        ELSE IF file.content = "empty" THEN caught(v, c, EmptyTemplate)
        ELSE IF v = "first" THEN [c EXCEPT !.pc = "load", !.body = file.content]
        ELSE renderSecond(c, rest)

\* generateDocumentAlternative once its fetch has settled (241-246): the
\* status of the response is not looked at
afterAlternativeFetch(c, outcome) ==
    IF outcome = "rejected" THEN caught("first", c, FailedToFetch)
    ELSE [c EXCEPT !.pc = "load",
                   !.body = CASE outcome = "ok" -> "template"
                              [] outcome = "empty" -> "empty"
                              [] OTHER -> "errorPage"]

\* zip.loadAsync has settled: the rest of generateDocument up to its next
\* await (174-220), or of generateDocumentAlternative (246-262)
afterLoad(c, outcome) ==
    LET c1 == [c EXCEPT !.loaded = Append(@, c.body)]
        c2 == [c1 EXCEPT !.renders = @ + 1]
        c3 == [c2 EXCEPT !.renderErrors = Append(@, RenderError(outcome).message)]
    IN  IF c.body # "template" \/ outcome = "notAZip" THEN caught("first", c1, NotAZip)
        ELSE IF outcome = "rendered" THEN [c2 EXCEPT !.pc = "generate"]
        ELSE IF c.method = "main"
             THEN caught("first", c3, templateError(RenderError(outcome)))
             ELSE caught("first", c3, RenderError(outcome).message)

\* the buttons as the input handler leaves them (370-376)
inputButtons(b, f) ==
    [b EXCEPT !.generateBtn.disabled = ~allFilled(f),
              !.previewBtn.disabled = ~allFilled(f)]

(***************************************************************************)
(* initApplication: the handlers                                           *)
(***************************************************************************)
\* the page once initApplication has run (79-93, 386-387): the buttons are
\* disabled whatever the fields hold (the browser may have restored them)
InitApp ==
    /\ variant \in AppVariants
    /\ form \in Forms \cup {NoData}
    /\ templateLoaded = FALSE
    /\ template = NoZip
    /\ buttons = [InitialButtons EXCEPT !.generateBtn.disabled = TRUE,
                                        !.previewBtn.disabled = TRUE]
    /\ statusLog = <<>>
    /\ alerts = <<>>
    /\ saved = <<>>
    /\ timers = 0
    /\ attempts = 0
    /\ CallIdle
    /\ data = NoData
    /\ xmlContent = <<>>
    /\ modifiedContent = <<>>
    /\ prevContent = <<>>
    /\ hfModified = <<>>
    /\ hfPrev = <<>>
    /\ step = 0
    /\ calls = <<>>
    /\ preview = HiddenPreview
    /\ generator = NoGenerator
    /\ inputs = 0
    /\ poll = NoPoll
    /\ tests = <<>>

\* call i goes on as c; when c has ended, the submit handler saves the blob
\* (316-328) or shows the alert (357), and its finally block runs (359-364)
AppSettle(i, c) ==
    /\ calls' = [calls EXCEPT ![i] = c]
    /\ IF c.pc # "done"
       THEN UNCHANGED <<buttons, alerts, saved, timers>>
       ELSE /\ buttons' = [buttons EXCEPT !.generateBtn.innerHTML = c.originalText,
                                          !.generateBtn.disabled = FALSE,
                                          !.previewBtn.disabled = FALSE]
            /\ IF c.error = <<>>
               THEN /\ saved' = Append(saved, [blob |-> DocBlob,
                                               filename |-> filenameOf(c.data.name,
                                                                       c.data.rollNo)])
                    /\ timers' = timers + 1
                    /\ UNCHANGED alerts
               ELSE /\ alerts' = Append(alerts, [kind |-> "failure",
                                                 detail |-> headingOf(variant, c.error),
                                                 filename |-> <<>>])
                    /\ UNCHANGED <<saved, timers>>

\* the submit event (276-301, 1245-1270)
AppSubmit ==
    /\ variant \in AppVariants
    /\ attempts < (IF variant = "second" THEN MaxCalls ELSE MaxAttempts)
    /\ attempts + inputs < MaxEvents
    /\ attempts' = attempts + 1
    /\ IF trim(form.name) = <<>> \/ trim(form.rollNo) = <<>> \/ trim(form.section) = <<>>
       THEN /\ alerts' = Append(alerts, [kind |-> "validation",
                                         detail |-> "Please fill in all fields",
                                         filename |-> <<>>])
            /\ UNCHANGED <<calls, buttons>>
       ELSE /\ calls' = Append(calls, NewCall(form, buttons))
            /\ buttons' = [buttons EXCEPT !.generateBtn.innerHTML = Generating,
                                          !.generateBtn.disabled = TRUE,
                                          !.previewBtn.disabled = TRUE]
            /\ UNCHANGED alerts
    /\ UNCHANGED <<data, substVars, form, templateLoaded, template, statusLog, saved, timers,
                   callVars, variant, preview, generator, inputs>>
    /\ UNCHANGED <<poll, tests>>

\* an input event on one of the three fields (368-383, 1321-1336); click()
\* on a disabled button dispatches nothing
AppInput ==
    /\ variant \in AppVariants
    /\ inputs < MaxInputs
    /\ attempts + inputs < MaxEvents
    /\ inputs' = inputs + 1
    /\ \E f \in Forms :
        /\ form' = f
        /\ buttons' = inputButtons(buttons, f)
        /\ IF ~preview.hidden /\ ~inputButtons(buttons, f).previewBtn.disabled
           THEN /\ preview' = previewClick(f, preview).preview
                /\ alerts' = IF previewClick(f, preview).alert
                             THEN Append(alerts, PreviewAlert) ELSE alerts
           ELSE UNCHANGED <<preview, alerts>>
    /\ UNCHANGED <<data, substVars, templateLoaded, template, statusLog, saved, timers,
                   attempts, callVars, variant, calls, generator>>
    /\ UNCHANGED <<poll, tests>>

\* a click on the preview button (95-112, 1117-1134)
AppPreviewClick ==
    /\ variant \in AppVariants
    /\ ~buttons.previewBtn.disabled
    /\ inputs < MaxInputs
    /\ attempts + inputs < MaxEvents
    /\ inputs' = inputs + 1
    /\ preview' = previewClick(form, preview).preview
    /\ alerts' = IF previewClick(form, preview).alert
                 THEN Append(alerts, PreviewAlert) ELSE alerts
    /\ UNCHANGED <<data, substVars, form, templateLoaded, template, buttons, statusLog, saved,
                   timers, attempts, callVars, variant, calls, generator>>
    /\ UNCHANGED <<poll, tests>>

\* the fetch of loadTemplateFile (120-127) or of generateDocumentAlternative
\* (241-242) settles
AppFetchSettles ==
    /\ \E i \in DOMAIN calls :
        /\ calls[i].pc = "fetch"
        /\ \E outcome \in FetchOutcomes :
            \E rest \in IF variant = "second" /\ outcome = "ok"
                        THEN SecondOutcomes ELSE {"generated"} :
                LET c == [calls[i] EXCEPT !.fetched = Append(@, outcome)]
                IN  AppSettle(i, IF c.method = "main"
                                 THEN afterLoadTemplate(variant, c, outcome, rest)
                                 ELSE afterAlternativeFetch(c, outcome))
    /\ UNCHANGED <<data, substVars, form, templateLoaded, template, statusLog, attempts,
                   callVars, variant, preview, generator, inputs>>
    /\ UNCHANGED <<poll, tests>>

\* zip.loadAsync settles (174, 246)
AppLoadSettles ==
    /\ \E i \in DOMAIN calls :
        /\ calls[i].pc = "load"
        /\ \E outcome \in LoadOutcomes : AppSettle(i, afterLoad(calls[i], outcome))
    /\ UNCHANGED <<data, substVars, form, templateLoaded, template, statusLog, attempts,
                   callVars, variant, preview, generator, inputs>>
    /\ UNCHANGED <<poll, tests>>

\* generateAsync settles (220, 262)
AppGenerateSettles ==
    /\ \E i \in DOMAIN calls :
        /\ calls[i].pc = "generate"
        /\ \E generated \in BOOLEAN :
            AppSettle(i, IF generated THEN returned(calls[i])
                         ELSE caught("first", calls[i], SerializeFailed))
    /\ UNCHANGED <<data, substVars, form, templateLoaded, template, statusLog, attempts,
                   callVars, variant, preview, generator, inputs>>
    /\ UNCHANGED <<poll, tests>>

(***************************************************************************)
(* SpecPage: the page under any of the three scripts                       *)
(***************************************************************************)
InitPage == InitGen \/ InitApp

\* the callback of setTimeout (326-328, 1288-1290) is SuccessAlert of NextGen
NextPage ==
    \/ NextGen
    \/ AppSubmit
    \/ AppInput
    \/ AppPreviewClick
    \/ AppFetchSettles
    \/ AppLoadSettles
    \/ AppGenerateSettles

SpecPage == InitPage /\ [][NextPage]_vars

(***************************************************************************)
(* SpecInit: new DocumentGenerator() on DOMContentLoaded (564-607, 975-977) *)
(***************************************************************************)
ElementsUndefined == "Cannot read properties of undefined (reading 'statusLog')"

\* log (609-621) on the generator g: reading this.elements.statusLog throws
\* while this.elements is not assigned
log(g, entries, entry) ==
    IF g.elements = "unbound"
    THEN [thrown |-> ElementsUndefined, entries |-> entries]
    ELSE [thrown |-> "none", entries |-> Append(entries, entry)]

\* the page when DOMContentLoaded fires: no generator yet, the fields as the
\* browser shows them, any template on the server
InitInit ==
    /\ variant = "generator"
    /\ generator = NoGenerator
    /\ form \in Forms
    /\ template \in Templates
    /\ templateLoaded = FALSE
    /\ buttons = InitialButtons
    /\ statusLog = <<>>
    /\ alerts = <<>>
    /\ saved = <<>>
    /\ timers = 0
    /\ attempts = 0
    /\ CallIdle
    /\ data = NoData
    /\ xmlContent = <<>>
    /\ modifiedContent = <<>>
    /\ prevContent = <<>>
    /\ hfModified = <<>>
    /\ hfPrev = <<>>
    /\ step = 0
    /\ calls = <<>>
    /\ preview = HiddenPreview
    /\ inputs = 0
    /\ poll = NoPoll
    /\ tests = <<>>

\* the constructor and init up to its first await (565-603, 731-735): the
\* promise of init is rejected when a call in it throws
Construct ==
    /\ generator.init = "none"
    /\ LET g     == [generator EXCEPT !.initialized = FALSE]
           first == log(g, statusLog,
                        Entry("info", "Initializing Document Generator...", "", <<>>))
       IN  IF first.thrown # "none"
           THEN /\ generator' = [g EXCEPT !.init = "rejected"]
                /\ UNCHANGED <<buttons, statusLog>>
           ELSE /\ generator' = [g EXCEPT !.elements = "bound", !.listeners = Listeners,
                                          !.init = "testTemplate"]
                /\ buttons' = validateForm(buttons, form)
                /\ statusLog' = first.entries \o
                      << Entry("success", "All libraries loaded successfully", "", <<>>),
                         Entry("info", "Testing template availability...", "", <<>>) >>
    /\ templateLoaded' = FALSE
    /\ UNCHANGED <<data, substVars, form, template, alerts, saved, timers, attempts, callVars,
                   variant, calls, preview, inputs>>
    /\ UNCHANGED <<poll, tests>>

\* window.debugTools.testTemplate() (982-987): testTemplate up to its first
\* await (731-735)
DebugTestTemplate ==
    /\ generator.init # "none"
    /\ inputs < MaxInputs
    /\ attempts + inputs < MaxEvents
    /\ inputs' = inputs + 1
    /\ LET first == log(generator, statusLog,
                        Entry("info", "Testing template availability...", "", <<>>))
       IN  IF first.thrown # "none"
           THEN UNCHANGED <<generator, statusLog>>
           ELSE /\ generator' = [generator EXCEPT !.init = "testTemplate"]
                /\ statusLog' = first.entries
    /\ UNCHANGED <<data, substVars, form, templateLoaded, template, buttons, alerts, saved,
                   timers, attempts, callVars, variant, calls, preview>>
    /\ UNCHANGED <<poll, tests>>

NextInit == Construct \/ DebugTestTemplate

\* the constructor runs once the event has fired
SpecInit == InitInit /\ [][NextInit]_vars /\ WF_vars(Construct)

(***************************************************************************)
(* SpecFilename: the file name of lines 836-840 (316-321, 1278-1283)        *)
(***************************************************************************)
NameChars == {"a", "Z", "7", "_", " ", ".", "-", "@", "!", "/"}

RECURSIVE StringsUpTo(_)
StringsUpTo(n) ==
    IF n = 0 THEN {<<>>}
    ELSE LET shorter == StringsUpTo(n - 1)
         IN  shorter \cup {Append(p, ch) : p \in shorter, ch \in NameChars}

\* values as the submit code passes them on: trimmed and not empty
TrimmedNames ==
    {n \in StringsUpTo(MaxNameLen) : n # <<>> /\ n[1] # " " /\ n[Len(n)] # " "}
        \cup {<<"J", "o", "@", "h", "n", "!">>}

TrimmedRollNos == {<<"1", "2", "/", "3">>, <<"7", " ", "b">>}

InitFilename ==
    /\ data \in [name : TrimmedNames, rollNo : TrimmedRollNos, section : {<<"B">>}]
    /\ variant = "none"
    /\ form = NoData
    /\ templateLoaded = FALSE
    /\ template = NoZip
    /\ buttons = InitialButtons
    /\ statusLog = <<>>
    /\ alerts = <<>>
    /\ saved = <<>>
    /\ timers = 0
    /\ attempts = 0
    /\ CallIdle
    /\ xmlContent = <<>>
    /\ modifiedContent = <<>>
    /\ prevContent = <<>>
    /\ hfModified = <<>>
    /\ hfPrev = <<>>
    /\ step = 0
    /\ calls = <<>>
    /\ preview = HiddenPreview
    /\ generator = NoGenerator
    /\ inputs = 0
    /\ poll = NoPoll
    /\ tests = <<>>

\* lines 836-840: the file name is made and handed to saveAs
SaveFile ==
    /\ saved = <<>>
    /\ saved' = <<[blob |-> NoZip, filename |-> filenameOf(data.name, data.rollNo)]>>
    /\ UNCHANGED <<data, substVars, form, templateLoaded, template, buttons, statusLog,
                   alerts, timers, attempts, callVars, appVars, inputs>>
    /\ UNCHANGED <<poll, tests>>

NextFilename == SaveFile

SpecFilename == InitFilename /\ [][NextFilename]_vars

(***************************************************************************)
(* SpecPoll: checkLibraries (13-66, 1035-1088)                             *)
(***************************************************************************)
\* const maxChecks = 50 (27, 1049)
maxChecks == 50

\* every(type => type !== 'undefined') on the values of libraries (32)
allLoaded(libraries) == libraries = Libraries

\* faulty variant: the return after initApplication() is missing
checkLibraryStatusNoReturn(p) ==
    LET count   == p.checkCount + 1
        started == IF allLoaded(p.libraries)
                   THEN [p EXCEPT !.hidden = TRUE, !.initApplication = @ + 1]
                   ELSE p
    IN  IF count >= maxChecks
        THEN [started EXCEPT !.checkCount = count, !.hidden = TRUE,
                             !.showLibraryError = @ + 1, !.pc = "ended"]
        ELSE [started EXCEPT !.checkCount = count, !.libraries = p.defined,
                             !.pc = "scheduled"]

\* checkLibraryStatus (29-63): the libraries object is tested as it was
\* filled in before, and filled in again only when another check is scheduled
checkLibraryStatus(p) ==
    LET count == p.checkCount + 1
    IN  IF allLoaded(p.libraries)
        THEN [p EXCEPT !.checkCount = count, !.hidden = TRUE,
                       !.initApplication = @ + 1, !.pc = "ended"]
        ELSE IF count >= maxChecks
        THEN [p EXCEPT !.checkCount = count, !.hidden = TRUE,
                       !.showLibraryError = @ + 1, !.pc = "ended"]
        ELSE [p EXCEPT !.checkCount = count, !.libraries = p.defined, !.pc = "scheduled"]

\* the page when DOMContentLoaded fires (8-11): any of the library scripts
\* may have run already, the indicator is shown or hidden
InitPoll ==
    /\ variant \in AppVariants
    /\ poll \in [pc : {"loaded"}, checkCount : {0}, libraries : {{}},
                 defined : SUBSET Libraries, hidden : BOOLEAN,
                 initApplication : {0}, showLibraryError : {0}]
    /\ data = NoData
    /\ form = NoData
    /\ templateLoaded = FALSE
    /\ template = NoZip
    /\ buttons = InitialButtons
    /\ statusLog = <<>>
    /\ alerts = <<>>
    /\ saved = <<>>
    /\ timers = 0
    /\ attempts = 0
    /\ CallIdle
    /\ xmlContent = <<>>
    /\ modifiedContent = <<>>
    /\ prevContent = <<>>
    /\ hfModified = <<>>
    /\ hfPrev = <<>>
    /\ step = 0
    /\ calls = <<>>
    /\ preview = HiddenPreview
    /\ generator = NoGenerator
    /\ inputs = 0
    /\ tests = <<>>

\* the alert of showLibraryError (68-77)
LibraryAlert ==
    [kind |-> "failure", detail |-> "Required libraries failed to load", filename |-> <<>>]

\* what a run of checkLibraryStatus leaves: the closure variables, and the
\* alert when it called showLibraryError
Checked(p) ==
    /\ poll' = p
    /\ alerts' = IF p.showLibraryError > poll.showLibraryError
                 THEN Append(alerts, LibraryAlert) ELSE alerts

\* the DOMContentLoaded listener: checkLibraries (13-66) with its first call
\* of checkLibraryStatus (65)
CheckLibraries ==
    /\ poll.pc = "loaded"
    /\ Checked(checkLibraryStatus([poll EXCEPT !.hidden = FALSE, !.libraries = poll.defined,
                                               !.checkCount = 0]))
    /\ UNCHANGED <<data, substVars, form, templateLoaded, template, buttons, statusLog, saved,
                   timers, attempts, callVars, appVars, inputs, tests>>

\* the callback of setTimeout(checkLibraryStatus, 100) (62)
TimerFires ==
    /\ poll.pc = "scheduled"
    /\ Checked(checkLibraryStatus(poll))
    /\ UNCHANGED <<data, substVars, form, templateLoaded, template, buttons, statusLog, saved,
                   timers, attempts, callVars, appVars, inputs, tests>>

\* one of the library scripts of the page runs and defines its global; this
\* may happen at any time, or never
ScriptLoads ==
    /\ poll.pc # "none"
    /\ \E library \in Libraries \ poll.defined :
          poll' = [poll EXCEPT !.defined = @ \cup {library}]
    /\ UNCHANGED <<data, substVars, pageVars, callVars, appVars, inputs, tests>>

NextPoll == CheckLibraries \/ TimerFires \/ ScriptLoads

\* the listener runs once the event has fired, and a timer that is set fires
SpecPoll ==
    InitPoll /\ [][NextPoll]_vars /\ WF_vars(CheckLibraries) /\ WF_vars(TimerFires)

(***************************************************************************)
(* Vocabulary of the substitution claims                                   *)
(***************************************************************************)
\* the key whose token occurs in T at index p (tokens cannot overlap: each
\* starts with its only opening brace and ends with its only closing brace)
KeyAt(T, p) == CHOOSE key \in Keys : MatchAt(T, Token(key), p)
TokenAt(T, p) == \E key \in Keys : MatchAt(T, Token(key), p)

\* number of occurrences of tok in T
Count(T, tok) == Cardinality({i \in 1..Len(T) : MatchAt(T, tok, i)})

NoToken(T) == \A key \in Keys : Count(T, Token(key)) = 0

\* the stretches of T outside its token spans, in order: one more than T has tokens
RECURSIVE OutsideFrom(_, _, _)
OutsideFrom(T, p, cur) ==
    IF p > Len(T) THEN <<cur>>
    ELSE IF TokenAt(T, p)
         THEN <<cur>> \o OutsideFrom(T, p + Len(Token(KeyAt(T, p))), <<>>)
         ELSE OutsideFrom(T, p + 1, Append(cur, T[p]))
Outside(T) == OutsideFrom(T, 1, <<>>)

\* can the stretches segs[k..], the last one excluded, be found in this order
\* in out[q..limit]
RECURSIVE FitsMiddle(_, _, _, _, _)
FitsMiddle(out, segs, k, q, limit) ==
    IF k >= Len(segs) THEN q <= limit + 1
    ELSE LET hits == {i \in q..(limit + 1) :
                        MatchAt(out, segs[k], i) /\ i + Len(segs[k]) - 1 <= limit}
         IN  /\ hits # {}
             /\ FitsMiddle(out, segs, k + 1,
                           (CHOOSE i \in hits : \A j \in hits : i <= j) + Len(segs[k]),
                           limit)

\* out is T with each token span replaced by some text: the stretches of T
\* outside its token spans all appear in out, unchanged and in order, with
\* nothing but the replacements between them
KeepsOutside(out, T) ==
    LET segs == Outside(T)
        n    == Len(segs)
    IN  IF n = 1 THEN out = segs[1]
        ELSE /\ MatchAt(out, segs[1], 1)
             /\ MatchAt(out, segs[n], Len(out) - Len(segs[n]) + 1)
             /\ FitsMiddle(out, segs, 2, Len(segs[1]) + 1, Len(out) - Len(segs[n]))

\* s with every occurrence of tok replaced by exactly the characters of v
RECURSIVE VerbatimFrom(_, _, _, _)
VerbatimFrom(s, tok, v, p) ==
    IF p > Len(s) THEN <<>>
    ELSE IF MatchAt(s, tok, p) THEN v \o VerbatimFrom(s, tok, v, p + Len(tok))
         ELSE <<s[p]>> \o VerbatimFrom(s, tok, v, p + 1)
Verbatim(s, tok, v) == VerbatimFrom(s, tok, v, 1)

\* the length the output has when exactly the occurrences of T are replaced
ExpectedLength(T, d) ==
    LET delta(key) == Count(T, Token(key)) * (Len(d[key]) - Len(Token(key)))
    IN  Len(T) + delta("name") + delta("rollNo") + delta("section")

Orders == { o \in [1..3 -> Keys] : \A i, j \in 1..3 : o[i] = o[j] => i = j }

\* the body blocks and the header/footer calls, run in the order o
BodyInOrder(T, d, o) ==
    replaceIfFound(T, replaceIfFound(T, replaceIfFound(T, T, d, o[1]), d, o[2]), d, o[3])
PartInOrder(T, d, o) ==
    replaceInPart(replaceInPart(replaceInPart(T, d, o[1]), d, o[2]), d, o[3])

BodyDone == step >= 3
PartDone == step = 6

(***************************************************************************)
(* Claims on the substitution (SpecSubst)                                  *)
(***************************************************************************)
\* C1: the output of the three-key substitution of processDocumentXML differs
\* from the text T only inside the spans of T that are occurrences of {name},
\* {rollNo} or {section}: every character of T outside those spans appears
\* unchanged and in the same order in the output.
C1_OutsideUntouched == BodyDone => KeepsOutside(modifiedContent, xmlContent)

\* C2: a text with n occurrences of a key's token has exactly n occurrences
\* replaced: the length of the output is the length of T plus, summed over the
\* three keys, n * (length of the value - length of the token), and the other
\* characters are unchanged; for processDocumentXML and for processHeaderFooter.
C2_ExactlyNReplaced ==
    /\ BodyDone => /\ Len(modifiedContent) = ExpectedLength(xmlContent, data)
                   /\ KeepsOutside(modifiedContent, xmlContent)
    /\ PartDone => /\ Len(hfModified) = ExpectedLength(xmlContent, data)
                   /\ KeepsOutside(hfModified, xmlContent)

\* C3: on a text that holds none of the three tokens the substitution of
\* processDocumentXML and that of processHeaderFooter return the text as it was.
C3_NoTokenNoChange ==
    NoToken(xmlContent) => /\ modifiedContent = xmlContent
                           /\ hfModified = xmlContent

\* C3 witness: both substitutions have run on a non-empty text without a token
C3_Witness ==
    /\ PartDone
    /\ NoToken(xmlContent)
    /\ includes(xmlContent, <<"{", "n", "a", "m", "e">>)

\* C4: each replace call inserts the value verbatim: after the call for a key,
\* the text is the text before the call with every span of the key's token
\* replaced by exactly the characters of the value.
C4_ValueVerbatim ==
    /\ step \in 1..3 =>
         modifiedContent =
            IF includes(xmlContent, Token(KeyOrder[step]))
            THEN Verbatim(prevContent, Token(KeyOrder[step]), data[KeyOrder[step]])
            ELSE prevContent
    /\ step \in 4..6 =>
         hfModified = Verbatim(hfPrev, Token(KeyOrder[step - 3]), data[KeyOrder[step - 3]])

\* C5: replacing the keys in the order name, rollNo, section gives the same
\* output as replacing them in any other order of the three keys.
C5_OrderIndependent ==
    /\ BodyDone => \A o \in Orders : BodyInOrder(xmlContent, data, o) = modifiedContent
    /\ PartDone => \A o \in Orders : PartInOrder(xmlContent, data, o) = hfModified

E2ECase == xmlContent = E2EDouble /\ data = E2EData /\ BodyDone

C18_SameInEveryPart == PartDone => modifiedContent = hfModified

(***************************************************************************)
(* Vocabulary of the generation claims                                     *)
(***************************************************************************)
\* the running or latest generateDocument call logged this entry
Logged(type, text, arg) ==
    \E i \in (mark.log + 1)..Len(statusLog) :
        /\ statusLog[i].type = type
        /\ statusLog[i].text = text
        /\ statusLog[i].arg = arg

\* the call showed the failure alert with this error message
FailureAlerted(message) ==
    \E i \in (mark.alerts + 1)..Len(alerts) :
        alerts[i].kind = "failure" /\ alerts[i].detail = message

\* a generateDocument call got past its checks and has run its finally block
Ran ==
    /\ pc = "idle"
    /\ Len(statusLog) > mark.log
    /\ statusLog[mark.log + 1].text = "Starting document generation..."

\* the call reached saveAs, once
SavedOnce == Len(saved) = mark.saved + 1

\* the call has run the three blocks of 877-899
BodySubstituted ==
    \E key \in Keys :
        Logged("success", "Replaced", key) \/ Logged("warning", "not found in template", key)

\* the body text of the template holds the token of key
InTemplateBody(key) == Count(template[DocumentXml], Token(key)) > 0

\* the failures that the environment causes
EnvironmentFailures == {FetchError, LoadError, NoDocumentXml, ReadError, GenerateError}

HeaderFooterFailed ==
    \/ Logged("warning", "Could not process files", "header")
    \/ Logged("warning", "Could not process files", "footer")

NoHeaderFooter ==
    /\ DocumentXml \in DOMAIN template
    /\ DOMAIN template \subseteq {DocumentXml, "word/styles.xml"}

WrittenParts == {DocumentXml, "word/header1.xml", "word/header2.xml", "word/footer1.xml"}

Blank(f) == \E key \in Keys : \A i \in 1..Len(f[key]) : f[key][i] \in WhiteSpace

\* v is raw without its leading and trailing white space, and is not empty
IsTrimOf(v, raw) ==
    /\ v # <<>>
    /\ v[1] \notin WhiteSpace
    /\ v[Len(v)] \notin WhiteSpace
    /\ \E lead \in 0..Len(raw) :
          /\ MatchAt(raw, v, lead + 1)
          /\ \A i \in 1..Len(raw) : (i <= lead \/ i > lead + Len(v)) => raw[i] \in WhiteSpace

\* the generateDocument call of the DocumentGenerator is past its checks
InFlight == pc # "idle"

\* every generation that is running or has run works on non-empty values
\* without leading or trailing white space, and the body it wrote and the
\* file name it saved under are made of these values
C12_State ==
    /\ InFlight => \A key \in Keys : IsTrimOf(data[key], data[key])
    /\ \A i \in DOMAIN calls : \A key \in Keys : IsTrimOf(calls[i].data[key], calls[i].data[key])
    /\ (variant = "generator" /\ BodySubstituted) =>
          zip[DocumentXml] = substituteBody(template[DocumentXml], data)
    /\ (variant = "generator" /\ Len(saved) > mark.saved) =>
          saved[Len(saved)].blob[DocumentXml] = substituteBody(template[DocumentXml], data)

\* a submit event: with a blank field it shows the alert and starts nothing;
\* when it starts a generation, the values of the generation are the fields
\* without their leading and trailing white space
C12_Step ==
    attempts' = attempts + 1 =>
        IF Blank(form)
        THEN /\ alerts' = Append(alerts, [kind |-> "validation",
                                          detail |-> "Please fill in all fields",
                                          filename |-> <<>>])
             /\ UNCHANGED <<data, calls, pc, zip, saved, statusLog, timers>>
        ELSE /\ pc' # pc => \A key \in Keys : IsTrimOf(data'[key], form[key])
             /\ calls' # calls =>
                   /\ Len(calls') = Len(calls) + 1
                   /\ \A key \in Keys : IsTrimOf(calls'[Len(calls')].data[key], form[key])

C14_NoRetry ==
    \A i \in DOMAIN calls :
        /\ Len(calls[i].fetched) <= 1
        /\ Len(calls[i].loaded) <= 1
        /\ calls[i].renders <= 1
        /\ calls[i].method = "main"

\* something failed in the handler call c
Failed(c) == c.method = "alternative" \/ c.error # <<>>

\* C15: every fatal failure of a generation attempt aborts the attempt and is
\* surfaced as exactly one alert: for each submission either nothing failed,
\* saveAs is called once and no failure alert is shown, or exactly one failure
\* alert is shown and saveAs is never called.
C15_OneAlertOrOneSave ==
    /\ \A i \in DOMAIN calls :
          calls[i].pc = "done" =>
            IF Failed(calls[i])
            THEN Len(calls[i].alerted) = 1 /\ calls[i].saves = 0
            ELSE calls[i].alerted = <<>> /\ calls[i].saves = 1
    /\ (variant = "generator" /\ Ran) =>
          LET shown == {i \in (mark.alerts + 1)..Len(alerts) : alerts[i].kind = "failure"}
          IN  IF error # "none"
              THEN Cardinality(shown) = 1 /\ Len(saved) = mark.saved
              ELSE shown = {} /\ SavedOnce

\* the first fetch of the handler call c did not obtain the template
Unavailable(c) ==
    c.fetched # <<>> /\ c.fetched[1] \in {"status404", "status500", "rejected"}

\* C16: when the template cannot be obtained (the fetch rejects, or answers
\* with a non-success status), the attempt is fatal in every variant: the
\* response body is never loaded as an archive, saveAs is not called, and the
\* user is shown the guidance to verify that template.docx is present and
\* correctly named.
C16_UnavailableIsFatal ==
    /\ \A i \in DOMAIN calls :
          Unavailable(calls[i]) =>
            /\ \A k \in DOMAIN calls[i].loaded : calls[i].loaded[k] # "errorPage"
            /\ calls[i].saves = 0
            /\ calls[i].pc = "done" =>
                  /\ Len(calls[i].alerted) = 1
                  /\ includes(calls[i].alerted[1], TemplateNotFound)
    /\ (variant = "generator" /\ (arrayBuffer = "errorPage" \/ error = FetchError)) =>
          /\ pc \in {"fetch", "idle"}
          /\ Len(saved) = mark.saved
          /\ pc = "idle" => FailureAlerted("Template file (template.docx) not found")

\* C17: the generate button is disabled for the whole duration of a
\* generation, from the submission that passes the validation until its
\* finally block has run, under every interleaving of user events.
C17_DisabledInFlight ==
    (InFlight \/ \E i \in DOMAIN calls : calls[i].pc # "done") =>
        buttons.generateBtn.disabled

\* no generation is in flight, under any of the scripts
NoneInFlight == pc = "idle" /\ \A i \in DOMAIN calls : calls[i].pc = "done"

\* C21: after any sequence of input events and generation attempts, once no
\* generation is in flight the generate button carries the label it had before
\* the first attempt: the spinner label set at the start of an attempt is
\* replaced by the original label when the attempts have ended, also when two
\* attempts overlapped.
C21_LabelRestored ==
    NoneInFlight => buttons.generateBtn.innerHTML = InitialButtons.generateBtn.innerHTML

\* C22: in every reachable state after initialization, the generate and
\* preview buttons are enabled only if name, rollNo and section are all
\* non-empty after trimming; in particular right after a generation attempt
\* has finished, when a field was cleared while the attempt was in flight.
C22_EnabledOnlyIfFilled ==
    (~buttons.generateBtn.disabled \/ ~buttons.previewBtn.disabled) => ~Blank(form)

\* a preview click that shows the values: the section is visible, the name and
\* roll-number elements hold the trimmed fields, and the textContent of the
\* container (the element with id previewSection) is not written
C23_Step ==
    preview' # preview =>
        /\ ~preview'.hidden
        /\ IsTrimOf(preview'.previewName, form'.name)
        /\ IsTrimOf(preview'.previewRollNo, form'.rollNo)
        /\ preview'.previewSection = preview.previewSection

\* C23: after a preview click with all three fields non-empty, the preview
\* section is visible and the trimmed name, roll number and section are each
\* held by a distinct element: the element that receives the section value is
\* not the preview container itself, so that writing the section value does not
\* overwrite the container that holds the name and roll-number elements.
C23_SectionNotInContainer == [][C23_Step]_vars

\* C26: in the docxtemplater variants, whenever doc.render() fails, the alert
\* shown to the user reports the failure under the 'Template Error:' heading
\* and carries the render error's details, whatever the text of the render
\* error message (including messages containing 'not found', 'Template file',
\* 'fetch' or 'network').
C26_RenderFailureIsTemplateError ==
    \A i \in DOMAIN calls :
        (calls[i].pc = "done" /\ calls[i].renderErrors # <<>>) =>
            /\ Len(calls[i].alerted) = 1
            /\ includes(calls[i].alerted[1], <<"Template", "Error", ":">>)
            /\ includes(calls[i].alerted[1],
                        calls[i].renderErrors[Len(calls[i].renderErrors)])
            /\ \E k \in DOMAIN alerts : alerts[k].detail = "Template Error"

(***************************************************************************)
(* Claim on the file name (SpecFilename)                                   *)
(***************************************************************************)
\* the characters of NameChars the sanitizing keeps, and those it replaces
KeptChars == {"a", "Z", "7", "_", " ", ".", "-"}
ReplacedChars == {"@", "!", "/"}

\* out is raw with each replaced character turned into one underscore
IsSanitized(out, raw) ==
    /\ Len(out) = Len(raw)
    /\ \A i \in 1..Len(raw) :
          /\ raw[i] \in KeptChars \cup {"J", "o", "h", "n", "1", "2", "3", "b"} => out[i] = raw[i]
          /\ raw[i] \in ReplacedChars => out[i] = "_"

\* C13: the download file name is <sanitized name>_<sanitized rollNo>.docx,
\* where sanitizing replaces every character outside word characters, white
\* space, '.' and '-' by exactly one '_' and leaves every other character in
\* place, so that the length is kept; "Jo@hn!" with "12/3" gives
\* Jo_hn__12_3.docx.
C13_SanitizedFilename ==
    \A i \in DOMAIN saved :
        LET fn == saved[i].filename
            n  == Len(data.name)
            r  == Len(data.rollNo)
        IN  /\ Len(fn) = n + 1 + r + 5
            /\ IsSanitized(SubSeq(fn, 1, n), data.name)
            /\ fn[n + 1] = "_"
            /\ IsSanitized(SubSeq(fn, n + 2, n + 1 + r), data.rollNo)
            /\ SubSeq(fn, n + r + 2, n + r + 6) = <<".", "d", "o", "c", "x">>
            /\ (data.name = <<"J", "o", "@", "h", "n", "!">>
                    /\ data.rollNo = <<"1", "2", "/", "3">>) =>
                  fn = <<"J", "o", "_", "h", "n", "_", "_", "1", "2", "_", "3",
                         ".", "d", "o", "c", "x">>

\* C13 witness: the file of "Jo@hn!" and "12/3" was saved
C13_Witness ==
    /\ saved # <<>>
    /\ data.name = <<"J", "o", "@", "h", "n", "!">>
    /\ data.rollNo = <<"1", "2", "/", "3">>

(***************************************************************************)
(* Claim on the construction (SpecInit)                                    *)
(***************************************************************************)
\* C20: constructing a DocumentGenerator eventually completes initialization:
\* init gets past its first log call, attaches the form, preview and test
\* listeners, runs testTemplate and sets state.initialized to true.
C20_InitCompletes ==
    <>(/\ generator.initialized
       /\ generator.init = "done"
       /\ {"form", "previewBtn", "testBtn"} \subseteq generator.listeners)

(***************************************************************************)
(* Claims on the library polling (SpecPoll)                                *)
(***************************************************************************)
\* the polling has ended
PollEnded == poll.pc = "ended"

\* at most maxChecks checks; until the end neither function has been called,
\* at the end exactly one of them has, once, and the indicator is hidden
C24_State ==
    /\ poll.checkCount <= maxChecks
    /\ IF PollEnded
       THEN /\ poll.initApplication + poll.showLibraryError = 1
            /\ poll.hidden
       ELSE /\ poll.initApplication = 0
            /\ poll.showLibraryError = 0

\* once the polling has ended no check runs and nothing is called
C24_Step ==
    PollEnded => poll' = [poll EXCEPT !.defined = poll'.defined]

\* C24: the library-availability polling of checkLibraries always terminates:
\* checkLibraryStatus runs at most 50 times, and the polling ends with exactly
\* one of initApplication or showLibraryError being called, exactly once, after
\* which no further check is scheduled and the loading indicator is hidden.
C24_PollingTerminates == []C24_State /\ [][C24_Step]_vars /\ <>PollEnded

\* C24 witness: the polling gave up at its 50th check with a library missing
C24_Witness ==
    /\ PollEnded
    /\ poll.checkCount = maxChecks
    /\ poll.showLibraryError = 1
    /\ poll.defined # Libraries

\* a check that runs while the three globals are defined calls
\* initApplication, or schedules the check that will, and does not call
\* showLibraryError
C25_Step ==
    (poll'.checkCount = poll.checkCount + 1 /\ poll.defined = Libraries) =>
        /\ poll'.showLibraryError = 0
        /\ \/ poll'.initApplication = 1
           \/ poll'.pc = "scheduled" /\ allLoaded(poll'.libraries)

\* C25: if JSZip, docxtemplater and saveAs are all defined at the moment of
\* some check performed by checkLibraryStatus (the 50th included), the polling
\* ends by calling initApplication and never by calling showLibraryError.
C25_DefinedAtCheckInits == [][C25_Step]_vars

\* a submit event on a filled form asks for confirmation exactly when
\* state.templateLoaded is false; a declined confirmation ends the call with
\* nothing fetched, no button touched, nothing saved and nothing logged
C27_GateStep ==
    (attempts' = attempts + 1 /\ allFilled(form)) =>
        IF templateLoaded
        THEN /\ alerts' = alerts
             /\ pc' = "fetch"
        ELSE /\ Len(alerts') = Len(alerts) + 1
             /\ alerts'[Len(alerts')].kind = "confirm"
             /\ IF alerts'[Len(alerts')].detail = "declined"
                THEN /\ pc' = "idle"
                     /\ arrayBuffer' = arrayBuffer
                     /\ zip' = zip
                     /\ buttons' = buttons
                     /\ saved' = saved
                     /\ statusLog' = statusLog
                     /\ timers' = timers
                ELSE pc' = "fetch"

\* the testTemplate call that completes in this step leaves
\* state.templateLoaded true exactly when its fetch was answered with a
\* non-empty body and extractRawText gave text
C27_TestStep ==
    \A i \in DOMAIN tests :
        (tests[i].pc # "done" /\ tests'[i].pc = "done") =>
            (templateLoaded' <=> (/\ tests'[i].fetched = "bytes"
                                  /\ tests'[i].extracted = "text"
                                  /\ tests'[i].value # <<>>))

====
